---- MODULE Spec2Model ----
(***************************************************************************)
(* A model of got (src/src/main.rs): the object store (Object::read,       *)
(* Object::write), hash_object, print_tree, write_tree and commit_tree.    *)
(*                                                                         *)
(* Bytes.  A byte is a record [of, i].  A literal byte with value n is     *)
(* [of |-> <<>>, i |-> n] with n in 0..255.  SHA-1 and zlib cannot be      *)
(* computed here, so their output bytes are symbolic: byte k of the digest *)
(* of p carries i = 300 + k (and p itself in byte 2, which makes the       *)
(* digest collision free), and the zlib stream of p is one symbolic byte   *)
(* carrying p.  Hex digits of symbolic bytes are symbolic too.             *)
(***************************************************************************)
EXTENDS Integers, Sequences, FiniteSets, TLC

VARIABLES fs, zcap, last, walk, procs, rd, tr

vars == <<fs, zcap, last, walk, procs, rd, tr>>

----------------------------------------------------------------------------
(* Bounds of the model                                                     *)

\* number of fan-out buckets the first digest byte ranges over (256 in SHA-1)
NumFan == 2
\* longest tree-entry sequence drawn for the tree codec
MaxEntries == 2

----------------------------------------------------------------------------
(* Bytes and strings                                                       *)

Lit(n) == [of |-> <<>>, i |-> n]

IsLit(b) == b.of = <<>> /\ b.i >= 0 /\ b.i < 256

Str(codes) == [k \in 1..Len(codes) |-> Lit(codes[k])]

NUL == Lit(0)

SP == Lit(32)

LF == Lit(10)

\* the four kind strings of Object::read / Object::write
KindBlob == Str(<<98, 108, 111, 98>>)

KindCommit == Str(<<99, 111, 109, 109, 105, 116>>)

KindTree == Str(<<116, 114, 101, 101>>)

KindTag == Str(<<116, 97, 103>>)

KindNames == {KindBlob, KindCommit, KindTree, KindTag}

\* index of the first occurrence of byte b in s, 0 when there is none
FirstIdx(s, b) ==
  IF \E k \in 1..Len(s) : s[k] = b
  THEN CHOOSE k \in 1..Len(s) : s[k] = b /\ \A j \in 1..(k - 1) : s[j] # b
  ELSE 0

Drop(s, n) == SubSeq(s, n + 1, Len(s))

\* BufRead::read_until(b): the bytes up to and including the first b, or all
ReadUntil(s, b) ==
  LET k == FirstIdx(s, b) IN IF k = 0 THEN s ELSE SubSeq(s, 1, k)

\* str::from_utf8 on the alphabet of the model: ASCII is valid, a lone 0xFF
\* (or a symbolic byte) is not
IsUtf8(s) == \A k \in 1..Len(s) : IsLit(s[k]) /\ s[k].i < 128

\* format!("{}", n) for an unsigned integer
RECURSIVE Dec(_)
Dec(n) == IF n < 10 THEN <<Lit(48 + n)>> ELSE Dec(n \div 10) \o <<Lit(48 + (n % 10))>>

IsDigit(b) == IsLit(b) /\ b.i >= 48 /\ b.i <= 57

RECURSIVE DigitsValue(_)
DigitsValue(s) ==
  IF s = <<>> THEN 0 ELSE 10 * DigitsValue(SubSeq(s, 1, Len(s) - 1)) + (s[Len(s)].i - 48)

\* str::parse::<usize>: an optional '+', then one or more digits; -1 is Err
ParseUsize(tok) ==
  LET digits == IF tok # <<>> /\ tok[1] = Lit(43) THEN Tail(tok) ELSE tok
  IN  IF digits # <<>> /\ \A k \in 1..Len(digits) : IsDigit(digits[k])
      THEN DigitsValue(digits)
      ELSE -1

----------------------------------------------------------------------------
(* sha1, hex and zlib                                                      *)

\* length of a SHA-1 digest in bytes
DigestLen == 20

Fan(p) == Len(p) % NumFan

Sha1(p) ==
  [k \in 1..DigestLen |->
     IF k = 1 THEN Lit(Fan(p))
     ELSE [of |-> IF k = 2 THEN p ELSE <<>>, i |-> 300 + k]]

HexDigit(v) == IF v < 10 THEN Lit(48 + v) ELSE Lit(87 + v)

HexPair(b) ==
  IF IsLit(b)
  THEN <<HexDigit(b.i \div 16), HexDigit(b.i % 16)>>
  ELSE <<[of |-> b.of, i |-> 1000 + 2 * b.i], [of |-> <<>>, i |-> 1001 + 2 * b.i]>>

\* hex::encode
RECURSIVE HexEncode(_)
HexEncode(s) == IF s = <<>> THEN <<>> ELSE HexPair(s[1]) \o HexEncode(Tail(s))

IsHexLit(c) == IsLit(c) /\ ((c.i >= 48 /\ c.i <= 57) \/ (c.i >= 97 /\ c.i <= 102))

HexVal(c) == IF c.i <= 57 THEN c.i - 48 ELSE c.i - 87

IsHexPair(hi, lo) ==
  \/ IsHexLit(hi) /\ IsHexLit(lo)
  \/ /\ hi.i >= 1000 /\ hi.i % 2 = 0
     /\ lo = [of |-> <<>>, i |-> hi.i + 1]

UnHexPair(hi, lo) ==
  IF IsHexLit(hi)
  THEN Lit(16 * HexVal(hi) + HexVal(lo))
  ELSE [of |-> hi.of, i |-> (hi.i - 1000) \div 2]

\* hex::decode succeeds
HexOk(s) ==
  /\ Len(s) % 2 = 0
  /\ \A k \in 1..(Len(s) \div 2) : IsHexPair(s[2 * k - 1], s[2 * k])

HexDecode(s) == [k \in 1..(Len(s) \div 2) |-> UnHexPair(s[2 * k - 1], s[2 * k])]

\* ZlibEncoder output for the bytes it accepted
Compress(p) == <<[of |-> p, i |-> 500]>>

IsZStream(f) == Len(f) = 1 /\ f[1].i = 500

\* ZlibDecoder output
Decompress(f) == f[1].of

----------------------------------------------------------------------------
(* The file system.  fs maps a path (a sequence of names, <<>> being the   *)
(* working directory) to a node.                                           *)

DotGot == Str(<<46, 103, 111, 116>>)

ObjectsDir == Str(<<111, 98, 106, 101, 99, 116, 115>>)

GotIgnore == Str(<<46, 103, 111, 116, 105, 103, 110, 111, 114, 101>>)

FileNode(data) == [type |-> "file", data |-> data, target |-> <<>>, exec |-> FALSE, ok |-> TRUE]

DirNode == [type |-> "dir", data |-> <<>>, target |-> <<>>, exec |-> FALSE, ok |-> TRUE]

LinkNode(target) == [type |-> "symlink", data |-> <<>>, target |-> target, exec |-> FALSE, ok |-> TRUE]

FifoNode == [type |-> "fifo", data |-> <<>>, target |-> <<>>, exec |-> FALSE, ok |-> TRUE]

Parent(p) == SubSeq(p, 1, Len(p) - 1)

Children(f, p) == {q \in DOMAIN f : Len(q) = Len(p) + 1 /\ Parent(q) = p}

\* path resolution of open(2): follows symbolic links, NoPath when the walk
\* ends nowhere (ENOENT) or does not end (ELOOP)
NoPath == <<<<Lit(-1)>>>>

\* the path with every symbolic link on it followed (stat); n bounds the links
RECURSIVE Real(_, _, _)
Real(f, p, n) ==
  IF p = <<>> THEN <<>>
  ELSE
    LET par == Real(f, Parent(p), n)
        q   == par \o <<p[Len(p)]>>
    IN  IF par = NoPath THEN NoPath
        ELSE IF q \notin DOMAIN f THEN NoPath
        ELSE IF f[q].type # "symlink" THEN q
        ELSE IF n = 0 THEN NoPath
        ELSE Real(f, f[q].target, n - 1)

\* the path with the links of its directory part followed (lstat)
LReal(f, p) ==
  IF p = <<>> THEN <<>>
  ELSE
    LET par == Real(f, Parent(p), Cardinality(DOMAIN f)) IN
    IF par = NoPath \/ par \o <<p[Len(p)]>> \notin DOMAIN f THEN NoPath
    ELSE par \o <<p[Len(p)]>>

\* fs::File::open(path) followed by reading the file. The open is a blocking
\* read-only open: on a FIFO it does not return before some other process
\* opens the FIFO for writing ("blocked").
OpenRead(f, p) ==
  LET q == Real(f, p, Cardinality(DOMAIN f)) IN
  IF q = NoPath THEN [status |-> "NotFound", data |-> <<>>]
  ELSE IF ~f[q].ok THEN [status |-> "PermissionDenied", data |-> <<>>]
  ELSE IF f[q].type = "fifo" THEN [status |-> "blocked", data |-> <<>>]
  ELSE IF f[q].type # "file" THEN [status |-> "IsADirectory", data |-> <<>>]
  ELSE [status |-> "ok", data |-> f[q].data]

Prefixes(p) == {SubSeq(p, 1, k) : k \in 1..Len(p)}

\* fs::create_dir_all
CreateDirAll(f, p) ==
  LET missing == {q \in Prefixes(p) : q \notin DOMAIN f} IN
  IF \E q \in Prefixes(p) : q \in DOMAIN f /\ f[q].type # "dir"
  THEN [ok |-> FALSE, fs |-> f]
  ELSE [ok |-> TRUE, fs |-> [q \in DOMAIN f \cup missing |-> IF q \in missing THEN DirNode ELSE f[q]]]

\* OpenOptions::create_new: an existing file is an error
FileCreate_New(f, p) ==
  IF p \in DOMAIN f THEN [ok |-> FALSE, fs |-> f]
  ELSE [ok |-> TRUE, fs |-> [q \in DOMAIN f \cup {p} |-> IF q = p THEN FileNode(<<>>) ELSE f[q]]]

\* File::create: open for writing, create if absent, truncate
FileCreate(f, p) ==
  IF p \in DOMAIN f /\ f[p].type # "file" THEN [ok |-> FALSE, fs |-> f]
  ELSE [ok |-> TRUE, fs |-> [q \in DOMAIN f \cup {p} |-> IF q = p THEN FileNode(<<>>) ELSE f[q]]]

\* write_all on a descriptor opened by File::create: the bytes go to offset 0
FileWriteAll(f, p, data) ==
  [f EXCEPT ![p].data = data \o Drop(f[p].data, Len(data))]

\* fs::write(path, data)
FsWrite(f, p, data) ==
  LET c == FileCreate(f, p) IN
  IF ~c.ok THEN c ELSE [ok |-> TRUE, fs |-> FileWriteAll(c.fs, p, data)]

----------------------------------------------------------------------------
(* Object::read                                                            *)

ObjectPath(hash) == <<DotGot, ObjectsDir, SubSeq(hash, 1, 2), Drop(hash, 2)>>

ReadFail(status) == [status |-> status, kind |-> <<>>, size |-> 0, contents |-> <<>>, hash |-> <<>>]

\* the decoding of a decompressed stream, lines 127-155
Decode(stream) ==
  LET buf    == ReadUntil(stream, NUL)
      header == SubSeq(buf, 1, Len(buf) - 1)
      sp     == FirstIdx(header, SP)
      kind   == SubSeq(header, 1, sp - 1)
      size   == ParseUsize(Drop(header, sp))
      rest   == Drop(stream, Len(buf))
  IN  IF buf = <<>> \/ buf[Len(buf)] # NUL THEN ReadFail("panic")
      ELSE IF ~IsUtf8(header) THEN ReadFail("InvalidUtf8")
      ELSE IF sp = 0 THEN ReadFail("MalformedHeader")
      ELSE IF kind \notin KindNames THEN ReadFail("UnknownKind")
      ELSE IF size < 0 THEN ReadFail("InvalidLength")
      ELSE IF Len(rest) < size THEN ReadFail("TruncatedRecord")
      ELSE IF Len(rest) > size THEN ReadFail("TrailingBytes")
      ELSE [status |-> "ok", kind |-> kind, size |-> size, contents |-> rest, hash |-> <<>>]

ObjectRead(f, hash) ==
  IF Len(hash) < 2 THEN ReadFail("panic")
  ELSE
    LET file == OpenRead(f, ObjectPath(hash)) IN
    IF file.status = "NotFound" THEN ReadFail("ObjectNotFound")
    ELSE IF file.status # "ok" THEN ReadFail("IoError")
    ELSE IF ~IsZStream(file.data) THEN ReadFail("CorruptObject")
    ELSE
      LET r == Decode(Decompress(file.data)) IN
      IF r.status # "ok" THEN r
      ELSE IF ~HexOk(hash) THEN ReadFail("InvalidHex")
      ELSE [r EXCEPT !.hash = HexDecode(hash)]

----------------------------------------------------------------------------
(* Object::write                                                           *)

\* format!("{} {}\0", kind, length)
Header(kind, n) == kind \o <<SP>> \o Dec(n) \o <<NUL>>

\* lines 166-184: the kind match, and for a blob the read of the file
Frame(f, path, kind, buf0) ==
  IF kind \notin KindNames THEN [status |-> "UnknownKind", buf |-> buf0]
  ELSE IF kind # KindBlob THEN [status |-> "ok", buf |-> buf0]
  ELSE
    LET file == OpenRead(f, path)
        vec  == ReadUntil(file.data, NUL)
    IN  IF file.status # "ok" THEN [status |-> file.status, buf |-> buf0]
        ELSE [status |-> "ok", buf |-> buf0 \o Header(kind, Len(vec)) \o vec]

\* encoder.write(&buf): the number of bytes the compressing writer accepts in
\* one call; cap is what its internal buffer takes before it must be drained
EncoderWrite(cap, buf) == IF Len(buf) <= cap THEN Len(buf) ELSE cap

WriteFail(status, f, buf) ==
  [status |-> status, hash |-> <<>>, kind |-> <<>>, size |-> 0, contents |-> <<>>, fs |-> f, buf |-> buf]

ObjectWrite(f, cap, path, kind, buf0) ==
  LET fr == Frame(f, path, kind, buf0) IN
  IF fr.status # "ok" THEN WriteFail(fr.status, f, buf0)
  ELSE
    LET buf        == fr.buf
        size       == EncoderWrite(cap, buf)
        hash       == Sha1(SubSeq(buf, 1, size))
        compressed == Compress(SubSeq(buf, 1, size))
        hash_str   == HexEncode(hash)
        hash_path  == ObjectPath(hash_str)
        mk         == CreateDirAll(f, Parent(hash_path))
        wr         == FsWrite(mk.fs, hash_path, compressed)
    IN  IF ~mk.ok THEN WriteFail("IoError", f, buf)
        ELSE IF ~wr.ok THEN WriteFail("panic", mk.fs, buf)
        ELSE [status |-> "ok", hash |-> hash, kind |-> kind, size |-> size,
              contents |-> compressed, fs |-> wr.fs, buf |-> buf]

\* fn hash_object
hash_object(f, cap, path) == ObjectWrite(f, cap, path, KindBlob, <<>>)

----------------------------------------------------------------------------
(* Values of the variables a specification does not use                    *)

EmptyFs == (<<>> :> DirNode)

BigCap == 1000

NoLast == [op |-> "none"]

NoWalk == [status |-> "off"]

NoProcs == <<>>

NoRd == [done |-> FALSE, stream |-> <<>>, hash |-> <<>>, res |-> ReadFail("none")]

NoTr == [done |-> FALSE]

----------------------------------------------------------------------------
(* SpecRead: Object::read applied to stored streams, well formed or not    *)

ReadKindToks == KindNames \cup {Str(<<98, 108, 117, 98>>), <<>>}

ReadSeps == {<<SP>>, <<>>}

ReadLenToks ==
  {Dec(0), Dec(1), Dec(2), Dec(10), Str(<<43, 49>>), Str(<<120>>), <<>>, Str(<<45, 49>>), Str(<<48, 49>>)}

ReadNuls == {<<NUL>>, <<>>}

ReadPayloads == {<<>>, Str(<<97>>), Str(<<97, 98>>), Str(<<97, 0>>)}

ReadStreams ==
  {k \o s \o l \o n \o p :
     k \in ReadKindToks, s \in ReadSeps, l \in ReadLenToks, n \in ReadNuls, p \in ReadPayloads}

\* a store holding the compressed stream under the digest of the stream
StoreWith(stream) ==
  FsWrite(CreateDirAll(EmptyFs, Parent(ObjectPath(HexEncode(Sha1(stream))))).fs,
          ObjectPath(HexEncode(Sha1(stream))), Compress(stream)).fs

InitRead ==
  /\ \E s \in ReadStreams :
       /\ fs = StoreWith(s)
       /\ rd = [done |-> FALSE, stream |-> s, hash |-> HexEncode(Sha1(s)), res |-> ReadFail("none")]
  /\ zcap = BigCap
  /\ last = NoLast
  /\ walk = NoWalk
  /\ procs = NoProcs
  /\ tr = NoTr

\* fn cat_file: Object::read on the hash
CatFile ==
  /\ ~rd.done
  /\ rd' = [rd EXCEPT !.done = TRUE, !.res = ObjectRead(fs, rd.hash)]
  /\ UNCHANGED <<fs, zcap, last, walk, procs, tr>>

NextRead == CatFile

SpecRead == InitRead /\ [][NextRead]_vars

\* what the specification's decoder answers for a stream: the first failing
\* check of header, kind, length, payload
ClaimedRead(s) ==
  LET nul    == FirstIdx(s, NUL)
      header == SubSeq(s, 1, nul - 1)
      sp     == FirstIdx(header, SP)
      n      == ParseUsize(Drop(header, sp))
      rest   == Drop(s, nul)
  IN  IF nul = 0 \/ sp = 0 THEN "MalformedHeader"
      ELSE IF SubSeq(header, 1, sp - 1) \notin KindNames THEN "UnknownKind"
      ELSE IF n < 0 THEN "InvalidLength"
      ELSE IF Len(rest) < n THEN "TruncatedRecord"
      ELSE IF Len(rest) > n THEN "TrailingBytes"
      ELSE "ok"

\* C6: for every stored stream that is not a well-formed record, Object::read
\* returns the error of the first failing check to its caller (MalformedHeader
\* also for a stream with no NUL, and for the empty stream) and no record.
C6_ReadRejectsMalformed ==
  rd.done /\ ClaimedRead(rd.stream) # "ok" => rd.res.status = ClaimedRead(rd.stream)

----------------------------------------------------------------------------
(* Tree payloads: the entry encoding of write_tree and print_tree          *)

ModeFile == Str(<<49, 48, 48, 54, 52, 52>>)

ModeExec == Str(<<49, 48, 48, 55, 53, 53>>)

ModeDir == Str(<<48, 52, 48, 48, 48, 48>>)

ModeLink == Str(<<49, 50, 48, 48, 48, 48>>)

\* lines 344-348: one entry appended to body_buf
EncodeEntry(mode, name, hashvec) == mode \o <<SP>> \o name \o <<NUL>> \o hashvec

RECURSIVE EncodeEntries(_)
EncodeEntries(es) ==
  IF es = <<>> THEN <<>>
  ELSE EncodeEntry(es[1].mode, es[1].name, es[1].hash) \o EncodeEntries(Tail(es))

\* line 250: where the digest of the entry starts
EntryStart(itemLen, end) == itemLen + end + 1

\* line 251
EntryEnd(start) == start + DigestLen

PrintFail(status, out, end) == [status |-> status, out |-> out, end |-> end]

\* the loop of print_tree, lines 241-263; out is what it has printed
RECURSIVE PrintLoop(_, _, _, _, _, _)
PrintLoop(f, buf, size, start, end, out) ==
  IF ~(end < size) THEN [status |-> "ok", out |-> out, end |-> end]
  ELSE IF start > Len(buf) THEN PrintFail("panic", out, end)
  ELSE
    LET rem    == Drop(buf, start)
        nul    == FirstIdx(rem, NUL)
        item   == SubSeq(rem, 1, nul - 1)
        sp     == FirstIdx(item, SP)
        start2 == EntryStart(Len(item), end)
        end2   == EntryEnd(start2)
        hash   == HexEncode(SubSeq(buf, start2 + 1, end2))
        object == ObjectRead(f, hash)
    IN  IF nul = 0 THEN PrintFail("panic", out, end)
        ELSE IF ~IsUtf8(item) THEN PrintFail("InvalidUtf8", out, end)
        ELSE IF sp = 0 THEN PrintFail("MalformedTreeEntry", out, end)
        ELSE IF end2 > Len(buf) THEN PrintFail("panic", out, end)
        ELSE IF object.status # "ok" THEN PrintFail(object.status, out, end2)
        ELSE PrintLoop(f, buf, size, end2, end2,
                       Append(out, [mode |-> SubSeq(item, 1, sp - 1), kind |-> object.kind,
                                    hash |-> hash, name |-> Drop(item, sp)]))

\* fn print_tree
print_tree(f, buf, size) == PrintLoop(f, buf, size, 0, 0, <<>>)

----------------------------------------------------------------------------
(* SpecTree: print_tree applied to the encoding of drawn entry sequences   *)

NameA == Str(<<97>>)

NameB == Str(<<98, 32, 99>>)

NameD == Str(<<100>>)

TreeModes == {ModeFile, ModeExec, ModeDir, ModeLink}

TreeNames == {NameA, NameB, NameD}

\* working files whose blobs the drawn trees name
TreeFs0 ==
  (<<>> :> DirNode) @@ (<<NameA>> :> FileNode(Str(<<120>>)))
                    @@ (<<NameD>> :> FileNode(Str(<<121, 121>>)))

\* the writer takes everything, or less than the 8 bytes of "blob 1\0x"
TreeCaps == {BigCap, 7}

TreeStore(cap) == hash_object(hash_object(TreeFs0, cap, <<NameA>>).fs, cap, <<NameD>>).fs

\* digests of the two stored blobs, and of a blob that was never written
TreeDigests(cap) ==
  { hash_object(TreeFs0, cap, <<NameA>>).hash,
    hash_object(TreeFs0, cap, <<NameD>>).hash,
    Sha1(Header(KindBlob, 1) \o Str(<<122>>)) }

TreeEntries(cap) == [mode : TreeModes, name : TreeNames, hash : TreeDigests(cap)]

RECURSIVE EntrySeqs(_, _)
EntrySeqs(E, n) ==
  IF n = 0 THEN {<<>>}
  ELSE LET shorter == EntrySeqs(E, n - 1) IN
       shorter \cup {Append(es, e) : es \in {x \in shorter : Len(x) = n - 1}, e \in E}

UniqueNames(es) == \A j, k \in 1..Len(es) : es[j].name = es[k].name => j = k

InitTree ==
  /\ \E cap \in TreeCaps :
       /\ zcap = cap
       /\ fs = TreeStore(cap)
       /\ \E es \in EntrySeqs(TreeEntries(cap), MaxEntries) :
            /\ UniqueNames(es)
            /\ tr = [done |-> FALSE, entries |-> es, payload |-> <<>>,
                     res |-> PrintFail("none", <<>>, 0)]
  /\ last = NoLast
  /\ walk = NoWalk
  /\ procs = NoProcs
  /\ rd = NoRd

\* the payload of the entries, and print_tree on it as ls_tree calls it
LsTree ==
  /\ ~tr.done
  /\ LET payload == EncodeEntries(tr.entries) IN
       tr' = [tr EXCEPT !.done = TRUE, !.payload = payload,
                        !.res = print_tree(fs, payload, Len(payload))]
  /\ UNCHANGED <<fs, zcap, last, walk, procs, rd>>

NextTree == LsTree

SpecTree == InitTree /\ [][NextTree]_vars

\* the (mode, name, digest) sequence print_tree printed
Decoded(out) ==
  [k \in 1..Len(out) |-> [mode |-> out[k].mode, name |-> out[k].name, hash |-> HexDecode(out[k].hash)]]

RoundTrips ==
  /\ tr.res.status = "ok"
  /\ Decoded(tr.res.out) = tr.entries
  /\ tr.res.end = Len(tr.payload)

AllReadable == \A k \in 1..Len(tr.entries) : ObjectRead(fs, HexEncode(tr.entries[k].hash)).status = "ok"

\* C7: print_tree decodes the encoding of every entry sequence with
\* unique names into the same sequence, its cursor ending at the payload length.
C7_TreeRoundTripAny == tr.done /\ UniqueNames(tr.entries) => RoundTrips

\* the decoding fails on nothing but an entry whose object the store cannot
\* give: with every entry's object readable the round trip holds
RoundTripWhenStored == tr.done /\ AllReadable => RoundTrips

----------------------------------------------------------------------------
(* init and commit_tree                                                    *)

RefsDir == Str(<<114, 101, 102, 115>>)

HeadFile == Str(<<72, 69, 65, 68>>)

HeadText == Str(<<114, 101, 102, 58, 32, 114, 101, 102, 115, 47, 104, 101, 97, 100, 115, 47, 109, 97, 105, 110, 10>>)

\* fn init: each create_dir is unwrapped, so an existing .got is a panic
init(f) ==
  IF <<DotGot>> \in DOMAIN f THEN [status |-> "panic", fs |-> f]
  ELSE [status |-> "ok",
        fs |-> f @@ (<<DotGot>> :> DirNode) @@ (<<DotGot, ObjectsDir>> :> DirNode)
                 @@ (<<DotGot, RefsDir>> :> DirNode) @@ (<<DotGot, HeadFile>> :> FileNode(HeadText))]

Author == Str(<<97, 102, 111, 115, 116, 101, 114>>)

AuthorLabel == <<NUL>> \o Str(<<97, 117, 116, 104, 111, 114, 32>>)

TimestampLabel == <<NUL>> \o Str(<<116, 105, 109, 101, 115, 116, 97, 109, 112, 32>>)

MessageLabel == <<NUL>> \o Str(<<109, 101, 115, 115, 97, 103, 101, 32>>)

ParentLabel == <<NUL>> \o Str(<<112, 97, 114, 101, 110, 116, 32>>)

\* lines 383-397: the commit payload; an Option is a sequence of length 0 or 1
CommitBody(hash, timestamp, m, has_parent, parent) ==
  hash \o AuthorLabel \o Author \o TimestampLabel \o timestamp \o MessageLabel \o m
       \o (IF has_parent THEN ParentLabel \o HexDecode(parent[1]) ELSE <<>>)

\* fn commit_tree; now is what Utc::now() prints
commit_tree(f, cap, now, has_parent, inline_message, tree_hash, parent, message) ==
  IF ~HexOk(tree_hash) THEN WriteFail("InvalidHex", f, <<>>)
  ELSE IF inline_message /\ message = <<>> THEN WriteFail("panic", f, <<>>)
  ELSE IF ~inline_message THEN WriteFail("panic", f, <<>>)
  ELSE IF has_parent /\ parent = <<>> THEN WriteFail("panic", f, <<>>)
  ELSE IF has_parent /\ ~HexOk(parent[1]) THEN WriteFail("InvalidHex", f, <<>>)
  ELSE
    LET body == CommitBody(HexDecode(tree_hash), now, message[1], has_parent, parent)
    IN  ObjectWrite(f, cap, <<>>, KindCommit, Header(KindCommit, Len(body)) \o body)

----------------------------------------------------------------------------
(* Spec: the commands init, hash-object, cat-file and commit-tree run one  *)
(* after the other on a working directory                                  *)

\* number of commands run
MaxCmds == 2

NameN == Str(<<110>>)

NameH == Str(<<104>>)

NameQ == Str(<<113>>)

\* "x", "x\0y" and "hello\n" as regular files, and a directory
StoreFs0 ==
  (<<>> :> DirNode) @@ (<<NameA>> :> FileNode(Str(<<120>>)))
                    @@ (<<NameN>> :> FileNode(Str(<<120, 0, 121>>)))
                    @@ (<<NameH>> :> FileNode(Str(<<104, 101, 108, 108, 111, 10>>)))
                    @@ (<<NameD>> :> DirNode)

\* the writer takes everything, or 12 bytes
StoreCaps == {BigCap, 12}

StorePaths == {<<NameA>>, <<NameN>>, <<NameH>>, <<NameD>>, <<NameQ>>}

StoredHashes(f) ==
  {q[3] \o q[4] : q \in {x \in DOMAIN f : Len(x) = 4 /\ x[1] = DotGot /\ x[2] = ObjectsDir}}

\* the hex digest of an object no command writes, and a string that is not hex
MissingHash == HexEncode(Sha1(Header(KindTree, 0)))

BadHash == Str(<<122, 122>>)

HashArgs(f) == StoredHashes(f) \cup {MissingHash, BadHash}

Timestamps == {Str(<<84, 49>>)}

Messages == {Str(<<109>>)}

Options(S) == {<<>>} \cup {<<x>> : x \in S}

Init ==
  /\ fs = StoreFs0
  /\ zcap \in StoreCaps
  /\ last = [op |-> "none", n |-> 0]
  /\ walk = NoWalk
  /\ procs = NoProcs
  /\ rd = NoRd
  /\ tr = NoTr

InitRepo ==
  /\ last.n < MaxCmds
  /\ LET r == init(fs) IN
       /\ fs' = r.fs
       /\ last' = [op |-> "init", n |-> last.n + 1, before |-> fs, status |-> r.status]
  /\ UNCHANGED <<zcap, walk, procs, rd, tr>>

HashObject ==
  /\ last.n < MaxCmds
  /\ \E path \in StorePaths :
       LET r == hash_object(fs, zcap, path) IN
         /\ fs' = r.fs
         /\ last' = [op |-> "hash_object", n |-> last.n + 1, before |-> fs, path |-> path, res |-> r]
  /\ UNCHANGED <<zcap, walk, procs, rd, tr>>

CatFileCmd ==
  /\ last.n < MaxCmds
  /\ \E hash \in HashArgs(fs) :
       last' = [op |-> "cat_file", n |-> last.n + 1, before |-> fs, hash |-> hash,
                res |-> ObjectRead(fs, hash)]
  /\ UNCHANGED <<fs, zcap, walk, procs, rd, tr>>

CommitTree ==
  /\ last.n < MaxCmds
  /\ \E now \in Timestamps, has_parent \in BOOLEAN, inline_message \in BOOLEAN,
        tree_hash \in HashArgs(fs), parent \in Options(HashArgs(fs)), message \in Options(Messages) :
       LET r == commit_tree(fs, zcap, now, has_parent, inline_message, tree_hash, parent, message) IN
         /\ fs' = r.fs
         /\ last' = [op |-> "commit_tree", n |-> last.n + 1, before |-> fs, tree_hash |-> tree_hash,
                     has_parent |-> has_parent, parent |-> parent, message |-> message,
                     inline_message |-> inline_message, res |-> r]
  /\ UNCHANGED <<zcap, walk, procs, rd, tr>>

Next == InitRepo \/ HashObject \/ CatFileCmd \/ CommitTree

Spec == Init /\ [][Next]_vars

Wrote == last.op \in {"hash_object", "commit_tree"} /\ last.res.status = "ok"

\* the payload of canonical bytes: what follows the first NUL
PayloadOf(buf) == Drop(buf, FirstIdx(buf, NUL))

\* C1: Object::read with the hex digest a write returned gives back the kind
\* and the payload the write framed, its size being the payload's length.
C1_ReadAfterWrite ==
  Wrote =>
    LET r == ObjectRead(fs, HexEncode(last.res.hash)) IN
      /\ r.status = "ok"
      /\ r.kind = last.res.kind
      /\ r.contents = PayloadOf(last.res.buf)
      /\ r.size = Len(r.contents)

\* C2: the digest Object::write returns, and stores the object under, is the
\* hash of the complete canonical bytes, whatever count the writer accepted.
C2_DigestOfWholeBuffer ==
  Wrote =>
    /\ last.res.hash = Sha1(last.res.buf)
    /\ ObjectPath(HexEncode(Sha1(last.res.buf))) \in DOMAIN fs

\* the tree digest is a digest, and no object of the store is filed under it
Dangling(f, tree_hash) ==
  /\ HexOk(tree_hash) /\ Len(tree_hash) = 2 * DigestLen
  /\ ObjectPath(tree_hash) \notin DOMAIN f

\* C3: commit_tree with a tree digest that names no object of the store fails
\* with a dangling-tree-reference error and leaves the store as it was.
C3_DanglingTreeRejected ==
  last.op = "commit_tree" /\ Dangling(last.before, last.tree_hash) =>
    /\ last.res.status = "DanglingTreeReference"
    /\ fs = last.before

\* C4: the blob hash_object frames for a regular file has the file's complete
\* bytes as payload, and their number in the header, NUL bytes included.
C4_BlobHoldsWholeFile ==
  /\ last.op = "hash_object" /\ last.res.status = "ok"
  /\ last.before[last.path].type = "file"
  => last.res.buf = Header(KindBlob, Len(last.before[last.path].data)) \o last.before[last.path].data

----------------------------------------------------------------------------
(* SpecRace: two processes run Object::write on the same canonical bytes,  *)
(* their file-system calls interleaved                                     *)

NameC == Str(<<99>>)

\* two files with the same bytes, and "hello\n"
RaceFs0 ==
  (<<>> :> DirNode) @@ (<<NameA>> :> FileNode(Str(<<120>>)))
                    @@ (<<NameC>> :> FileNode(Str(<<120>>)))
                    @@ (<<NameH>> :> FileNode(Str(<<104, 101, 108, 108, 111, 10>>)))

RaceCommit ==
  LET body == CommitBody(Sha1(Header(KindTree, 0)), Str(<<84, 49>>), Str(<<109>>), FALSE, <<>>)
  IN  Header(KindCommit, Len(body)) \o body

\* the calls of Object::write made by hash_object, write_tree and commit_tree
RaceJobs ==
  { [kind |-> KindBlob, path |-> <<NameA>>, buf0 |-> <<>>],
    [kind |-> KindBlob, path |-> <<NameC>>, buf0 |-> <<>>],
    [kind |-> KindBlob, path |-> <<NameH>>, buf0 |-> <<>>],
    [kind |-> KindTree, path |-> <<>>, buf0 |-> Header(KindTree, 0)],
    [kind |-> KindCommit, path |-> <<>>, buf0 |-> RaceCommit] }

\* the store before the race: absent, initialised, or holding an object
RaceStores(cap) ==
  { RaceFs0, init(RaceFs0).fs, hash_object(RaceFs0, cap, <<NameA>>).fs }

Canon(f, job) == Frame(f, job.path, job.kind, job.buf0).buf

Proc(job) ==
  [pc |-> "frame", job |-> job, status |-> "running", hash |-> <<>>, compressed |-> <<>>]

InitRace ==
  /\ zcap \in StoreCaps
  /\ fs \in RaceStores(zcap)
  /\ \E j1, j2 \in RaceJobs :
       /\ Canon(fs, j1) = Canon(fs, j2)
       /\ procs = <<Proc(j1), Proc(j2)>>
  /\ last = [op |-> "race", before |-> fs]
  /\ walk = NoWalk
  /\ rd = NoRd
  /\ tr = NoTr

\* lines 166-194: frame, encoder.write, hash, finish, paths
RaceFrame(i) ==
  /\ procs[i].pc = "frame"
  /\ LET job  == procs[i].job
         fr   == Frame(fs, job.path, job.kind, job.buf0)
         size == EncoderWrite(zcap, fr.buf)
     IN  procs' = [procs EXCEPT ![i] =
           IF fr.status # "ok"
           THEN [@ EXCEPT !.pc = "done", !.status = fr.status]
           ELSE [@ EXCEPT !.pc = "mkdir", !.hash = Sha1(SubSeq(fr.buf, 1, size)),
                          !.compressed = Compress(SubSeq(fr.buf, 1, size))]]
  /\ UNCHANGED <<fs, zcap, last, walk, rd, tr>>

\* line 195
RaceMkdir(i) ==
  /\ procs[i].pc = "mkdir"
  /\ LET mk == CreateDirAll(fs, Parent(ObjectPath(HexEncode(procs[i].hash)))) IN
       /\ fs' = mk.fs
       /\ procs' = [procs EXCEPT ![i] =
            IF mk.ok THEN [@ EXCEPT !.pc = "create"] ELSE [@ EXCEPT !.pc = "done", !.status = "IoError"]]
  /\ UNCHANGED <<zcap, last, walk, rd, tr>>

\* line 196, the open of fs::write
RaceCreate(i) ==
  /\ procs[i].pc = "create"
  /\ LET c == FileCreate(fs, ObjectPath(HexEncode(procs[i].hash))) IN
       /\ fs' = c.fs
       /\ procs' = [procs EXCEPT ![i] =
            IF c.ok THEN [@ EXCEPT !.pc = "data"] ELSE [@ EXCEPT !.pc = "done", !.status = "panic"]]
  /\ UNCHANGED <<zcap, last, walk, rd, tr>>

\* line 196, the write of fs::write
RaceData(i) ==
  /\ procs[i].pc = "data"
  /\ fs' = FileWriteAll(fs, ObjectPath(HexEncode(procs[i].hash)), procs[i].compressed)
  /\ procs' = [procs EXCEPT ![i] = [@ EXCEPT !.pc = "done", !.status = "ok"]]
  /\ UNCHANGED <<zcap, last, walk, rd, tr>>

NextRace == \E i \in {1, 2} : RaceFrame(i) \/ RaceMkdir(i) \/ RaceCreate(i) \/ RaceData(i)

SpecRace == InitRace /\ [][NextRace]_vars

BothDone == procs[1].pc = "done" /\ procs[2].pc = "done"

\* the outcome of one Object::write of the same job on the store before the race
OneWrite == ObjectWrite(last.before, zcap, procs[1].job.path, procs[1].job.kind, procs[1].job.buf0)

\* C5: two writes of the same canonical bytes, in sequence or interleaved, both
\* succeed with the same digest and leave the store as one write leaves it, with
\* one file under the digest's path.
C5_WriteTwiceIsWriteOnce ==
  BothDone =>
    /\ procs[1].status = "ok" /\ procs[2].status = "ok"
    /\ procs[1].hash = procs[2].hash
    /\ procs[1].hash = OneWrite.hash
    /\ fs = OneWrite.fs
    /\ StoredHashes(fs) = StoredHashes(last.before) \cup {HexEncode(procs[1].hash)}
    /\ fs[ObjectPath(HexEncode(procs[1].hash))] = FileNode(procs[1].compressed)

\* both writes done, after the second truncated the file the first had written
C5_Witness ==
  /\ BothDone
  /\ procs[1].job # procs[2].job
  /\ procs[1].status = "ok" /\ procs[2].status = "ok"

----------------------------------------------------------------------------
(* write_tree, one directory entry at a time.  walk.stack holds a frame    *)
(* for each call of write_tree that has not returned, the innermost last.  *)


StripCR(s) == IF s # <<>> /\ s[Len(s)] = Lit(13) THEN SubSeq(s, 1, Len(s) - 1) ELSE s

\* BufRead::lines
RECURSIVE Lines(_)
Lines(s) ==
  IF s = <<>> THEN <<>>
  ELSE LET k == FirstIdx(s, LF) IN
       IF k = 0 THEN <<StripCR(s)>>
       ELSE <<StripCR(SubSeq(s, 1, k - 1))>> \o Lines(Drop(s, k))

\* line 322: ignore_list.contains(&filename)
Ignored(list, name) == \E k \in 1..Len(list) : list[k] = name

RECURSIVE Perms(_)
Perms(S) ==
  IF S = {} THEN {<<>>}
  ELSE UNION {{<<x>> \o q : q \in Perms(S \ {x})} : x \in S}

\* fs::read_dir(path): the names of the directory in the order the listing
\* gives them, fetched when the directory is opened
ReadDir(f, path) ==
  LET real == Real(f, path, Cardinality(DOMAIN f)) IN
  IF real = NoPath \/ f[real].type # "dir" \/ ~f[real].ok THEN {}
  ELSE Perms({q[Len(q)] : q \in Children(f, real)})

\* lines 307-317: the start of a call of write_tree
EnterOutcomes(f, path) ==
  LET ign == OpenRead(f, <<GotIgnore>>) IN
  IF ign.status # "ok" \/ ~IsUtf8(ign.data) THEN {[status |-> "error"]}
  ELSE IF ReadDir(f, path) = {} THEN {[status |-> "panic"]}
  ELSE {[status |-> "ok",
         frame |-> [path |-> path, todo |-> order, ignore |-> Lines(ign.data),
                    body |-> <<>>, entries |-> <<>>]] : order \in ReadDir(f, path)}

\* line 325: entry.metadata(), which does not follow a link
Metadata(f, entry_path) ==
  LET q == LReal(f, entry_path) IN
  IF q = NoPath THEN [status |-> "NotFound", node |-> DirNode]
  ELSE [status |-> "ok", node |-> f[q]]

\* line 328: meta.is_dir()
IsDirMeta(f, entry_path) == Metadata(f, entry_path).node.type = "dir"

\* hash_object's result taken without the ?: the error is dropped
Try_Swallow(status) == "ok"

\* the ? after hash_object at lines 334 and 341
Try(status) == status

FileMode(node) ==
  IF node.type = "symlink" THEN ModeLink
  ELSE IF node.type = "file" /\ node.exec THEN ModeExec
  ELSE ModeFile

\* lines 344-348 on the innermost frame, and the iterator's step to the next entry
AppendEntry(frame, mode, name, type, hashvec) ==
  [frame EXCEPT !.todo = Tail(@),
                !.body = @ \o EncodeEntry(mode, name, hashvec),
                !.entries = Append(@, [name |-> name, type |-> type, hash |-> hashvec])]

Top(stack) == stack[Len(stack)]

Pop(stack) == SubSeq(stack, 1, Len(stack) - 1)

SetTop(stack, frame) == [stack EXCEPT ![Len(stack)] = frame]

FramePaths(stack) == {stack[k].path : k \in 1..Len(stack)}

\* the build ends with an error or a panic raised at `where`
Abort(w, status, where, fault) ==
  [w EXCEPT !.status = status, !.stack = <<>>, !.steps = @ + 1,
            !.failed = FramePaths(w.stack) \cup {where},
            !.fault = @ \cup fault]

Logged(path, o, entries) ==
  [path |-> path, kind |-> o.kind, hash |-> o.hash, data |-> o.contents, entries |-> entries]

----------------------------------------------------------------------------
(* SpecWalk: one run of the write-tree command on a drawn working directory *)

NameE == Str(<<101>>)

NameU == Str(<<117>>)

NameK == Str(<<107>>)

NameX == Str(<<120>>)

NameL == Str(<<108>>)

NameP == Str(<<112>>)

NameT == Str(<<116>>)

NameBb == Str(<<98>>)

Unreadable(node) == [node EXCEPT !.ok = FALSE]

Executable(node) == [node EXCEPT !.exec = TRUE]

ExtraFile == (<<NameA>> :> FileNode(Str(<<120>>)))

ExtraExec == (<<NameE>> :> Executable(FileNode(Str(<<121>>))))

ExtraUnreadable == (<<NameU>> :> Unreadable(FileNode(Str(<<122>>))))

ExtraDir == (<<NameD>> :> DirNode) @@ (<<NameD, NameBb>> :> FileNode(Str(<<120>>)))

ExtraDirUnreadable == (<<NameK>> :> DirNode) @@ (<<NameK, NameU>> :> Unreadable(FileNode(Str(<<122>>))))

ExtraDirUnlistable == (<<NameX>> :> Unreadable(DirNode))

ExtraLinkFile == (<<NameL>> :> LinkNode(<<NameT>>)) @@ (<<NameT>> :> FileNode(Str(<<119>>)))

ExtraLinkRoot == (<<NameL>> :> LinkNode(<<>>))

ExtraLinkDangling == (<<NameL>> :> LinkNode(<<NameQ>>))

ExtraFifo == (<<NameP>> :> FifoNode)

ExtraLinkFifo == (<<NameL>> :> LinkNode(<<NameP>>)) @@ (<<NameP>> :> FifoNode)

\* what the working directory holds besides .gotignore and .got
ExtraSets ==
  { {}, {ExtraFile}, {ExtraExec}, {ExtraUnreadable}, {ExtraDir}, {ExtraDirUnreadable},
    {ExtraDirUnlistable}, {ExtraLinkFile}, {ExtraLinkRoot}, {ExtraLinkDangling}, {ExtraFifo},
    {ExtraLinkFifo} }

\* larger working directories, walked with .got ignored
ExtraPairs ==
  { {ExtraFile, ExtraDir}, {ExtraFile, ExtraLinkRoot}, {ExtraFile, ExtraFifo},
    {ExtraDir, ExtraUnreadable}, {ExtraDir, ExtraDirUnreadable} }

RECURSIVE Merge(_)
Merge(S) ==
  IF S = {} THEN (<<>> :> DirNode)
  ELSE LET x == CHOOSE y \in S : TRUE IN Merge(S \ {x}) @@ x

\* .gotignore: absent, empty, or naming .got
IgnoreFiles == {<<>>, <<FileNode(<<>>)>>, <<FileNode(DotGot \o <<LF>>)>>}

WithIgnore(f, ig) == IF ig = <<>> THEN f ELSE f @@ (<<GotIgnore>> :> ig[1])

\* the store before the run: absent, or holding the blob of some file
WithStore(f, cap, stored) ==
  IF ~stored THEN f
  ELSE [q \in DOMAIN f \cup {x \in DOMAIN hash_object(TreeFs0, cap, <<NameD>>).fs : Len(x) >= 1 /\ x[1] = DotGot} |->
          IF q \in DOMAIN f THEN f[q] ELSE hash_object(TreeFs0, cap, <<NameD>>).fs[q]]

WalkFs0 ==
  {WithIgnore(Merge(E), ig) : E \in ExtraSets, ig \in IgnoreFiles}
    \cup {WithIgnore(Merge(E), <<FileNode(DotGot \o <<LF>>)>>) : E \in ExtraPairs}

InitWalk ==
  /\ zcap \in StoreCaps
  /\ \E f \in WalkFs0, stored \in BOOLEAN : fs = WithStore(f, zcap, stored)
  /\ walk = [status |-> "idle", stack |-> <<>>, log |-> <<>>, result |-> <<>>,
             failed |-> {}, fault |-> {}, vanished |-> FALSE, steps |-> 0]
  /\ last = [op |-> "write_tree", before |-> fs]
  /\ procs = NoProcs
  /\ rd = NoRd
  /\ tr = NoTr

\* main, lines 489-491: write_tree(".")
StartWalk ==
  /\ walk.status = "idle"
  /\ \E o \in EnterOutcomes(fs, <<>>) :
       walk' = IF o.status = "ok"
               THEN [walk EXCEPT !.status = "walking", !.stack = <<o.frame>>, !.steps = @ + 1]
               ELSE Abort(walk, o.status, <<>>, {<<>>})
  /\ UNCHANGED <<fs, zcap, last, procs, rd, tr>>

\* one turn of the loop at line 317
WalkEntry ==
  /\ walk.status = "walking"
  /\ Top(walk.stack).todo # <<>>
  /\ \E top \in {Top(walk.stack)} :
     \E name \in {Head(top.todo)} :
     \E entry_path \in {top.path \o <<name>>} :
     \E meta \in {Metadata(fs, entry_path)} :
     \E o \in {hash_object(fs, zcap, entry_path)} :
         IF Ignored(top.ignore, name)
         THEN /\ walk' = [walk EXCEPT !.stack = SetTop(@, [top EXCEPT !.todo = Tail(@)]), !.steps = @ + 1]
              /\ fs' = fs
         ELSE IF meta.status # "ok"
         THEN /\ walk' = Abort(walk, "error", entry_path, {entry_path})
              /\ fs' = fs
         ELSE IF IsDirMeta(fs, entry_path)
         THEN /\ \E e \in EnterOutcomes(fs, entry_path) :
                   walk' = IF e.status = "ok"
                           THEN [walk EXCEPT !.stack = Append(@, e.frame), !.steps = @ + 1]
                           ELSE Abort(walk, e.status, entry_path, {entry_path})
              /\ fs' = fs
         ELSE IF meta.node.type \in {"symlink", "file"}
         THEN IF o.status = "blocked"
              THEN /\ walk' = [walk EXCEPT !.status = "blocked"]
                   /\ fs' = fs
              ELSE IF Try(o.status) # "ok"
              THEN /\ walk' = Abort(walk, "error", entry_path, {entry_path})
                   /\ fs' = fs
              ELSE /\ walk' = [walk EXCEPT
                        !.steps = @ + 1,
                        !.stack = SetTop(@, AppendEntry(top, FileMode(meta.node), name, meta.node.type, o.hash)),
                        !.log = IF o.status = "ok" THEN Append(@, Logged(entry_path, o, <<>>)) ELSE @,
                        !.fault = IF o.status = "ok" THEN @ ELSE @ \cup {entry_path}]
                   /\ fs' = o.fs
         ELSE /\ walk' = [walk EXCEPT
                   !.steps = @ + 1,
                   !.stack = SetTop(@, AppendEntry(top, ModeFile, name, meta.node.type, <<>>))]
              /\ fs' = fs
  /\ UNCHANGED <<zcap, last, procs, rd, tr>>

\* lines 350-358: the tree of a directory whose entries are all done, and the
\* return to the caller (line 330, or main at line 492)
WalkFinish ==
  /\ walk.status = "walking"
  /\ Top(walk.stack).todo = <<>>
  /\ \E top \in {Top(walk.stack)} :
     \E rest \in {Pop(walk.stack)} :
     \E o \in {ObjectWrite(fs, zcap, top.path, KindTree, Header(KindTree, Len(top.body)) \o top.body)} :
         IF o.status # "ok"
         THEN /\ walk' = Abort(walk, IF o.status = "panic" THEN "panic" ELSE "error", top.path, {})
              /\ fs' = o.fs
         ELSE /\ fs' = o.fs
              /\ walk' =
                   IF rest = <<>>
                   THEN [walk EXCEPT !.status = "done", !.stack = <<>>, !.result = <<o.hash>>, !.steps = @ + 1,
                                     !.log = Append(@, Logged(top.path, o, top.entries))]
                   ELSE [walk EXCEPT
                           !.steps = @ + 1,
                           !.stack = SetTop(rest, AppendEntry(Top(rest), ModeDir, top.path[Len(top.path)], "dir", o.hash)),
                           !.log = Append(@, Logged(top.path, o, top.entries))]
  /\ UNCHANGED <<zcap, last, procs, rd, tr>>

\* another process removes the listed entry the walk is about to visit
Vanish ==
  /\ walk.status = "walking"
  /\ ~walk.vanished
  /\ Top(walk.stack).todo # <<>>
  /\ LET q == Top(walk.stack).path \o <<Head(Top(walk.stack).todo)>> IN
       /\ q \in DOMAIN fs
       /\ q[1] # DotGot /\ q # <<GotIgnore>>
       /\ Children(fs, q) = {}
       /\ fs' = [x \in DOMAIN fs \ {q} |-> fs[x]]
  /\ walk' = [walk EXCEPT !.vanished = TRUE]
  /\ UNCHANGED <<zcap, last, procs, rd, tr>>

NextWalk == StartWalk \/ WalkEntry \/ WalkFinish \/ Vanish

SpecWalk == InitWalk /\ [][NextWalk]_vars

Terminal == walk.status \in {"done", "error", "panic"}

TreesWritten == {k \in 1..Len(walk.log) : walk.log[k].kind = KindTree}

\* C8: after a successful write_tree every entry of every tree it wrote carries
\* 20 digest bytes, the digest of the object it wrote for that entry: a tree for
\* a directory, a blob for anything else.
C8_EntriesNameObjects ==
  walk.status = "done" =>
    \A t \in TreesWritten : \A j \in 1..Len(walk.log[t].entries) :
      LET e == walk.log[t].entries[j] IN
        /\ Len(e.hash) = DigestLen
        /\ \E k \in 1..Len(walk.log) :
             /\ walk.log[k].path = walk.log[t].path \o <<e.name>>
             /\ walk.log[k].hash = e.hash
             /\ walk.log[k].kind = IF e.type = "dir" THEN KindTree ELSE KindBlob

IsPrefix(p, q) == Len(p) <= Len(q) /\ SubSeq(q, 1, Len(p)) = p

\* C9: once the read of a directory, of an entry's metadata or of a file has
\* failed, the build has stopped with an error or a panic, reports no digest,
\* has written no tree for the directory of the failure or for a directory
\* above it, and every object it wrote before is in the store as written.
C9_FailureAbortsBuild ==
  walk.fault # {} =>
    /\ walk.status \in {"error", "panic"}
    /\ walk.result = <<>>
    /\ \A p \in walk.fault : \A t \in TreesWritten : ~IsPrefix(walk.log[t].path, p)
    /\ \A k \in 1..Len(walk.log) :
         /\ ObjectPath(HexEncode(walk.log[k].hash)) \in DOMAIN fs
         /\ fs[ObjectPath(HexEncode(walk.log[k].hash))] = FileNode(walk.log[k].data)

\* a file deep in the tree could not be read after a sibling tree or blob was written
C9_Witness ==
  /\ walk.status = "error"
  /\ walk.log # <<>>
  /\ \E p \in walk.fault : Len(p) >= 2

IsRealDir(f, p) == p \in DOMAIN f /\ f[p].type = "dir"

\* C10: write_tree started at the working directory ends after a bounded number
\* of steps, also when the walk reaches .got and when the tree holds symbolic
\* links: it never waits for something outside itself, every call of write_tree
\* is on a directory of the tree, one level below its caller's (the recursion
\* is no deeper than the tree), and the steps taken (an entry visited, a
\* directory finished) never outnumber the entries of the file system.
C10_WalkTerminates ==
  /\ walk.status # "blocked"
  /\ \A k \in 1..Len(walk.stack) :
       /\ IsRealDir(fs, walk.stack[k].path)
       /\ Len(walk.stack[k].path) = k - 1
  /\ walk.steps <= 2 * Cardinality(DOMAIN fs) + 2

====
